---- MODULE Spec2Model ----
(***************************************************************************)
(* A model of the cycler library (cycler.py, version 0.10.0) bundled with  *)
(* the repository.  Cycler objects live on a heap, the calling program's   *)
(* variables (slots) hold references to them, and every call of the public *)
(* interface is one action.  The library never mutates a list or a dict in *)
(* place, so these are values; it does mutate Cycler objects in place      *)
(* (change_key, __iadd__, __imul__), so these have identity.               *)
(*                                                                         *)
(* A call that returns a Cycler is modelled by an operator that returns    *)
(* [h, id, err]: the heap after the call, the object returned, and the     *)
(* exception raised ("ok" when none).  The steps of a method are chained   *)
(* through operator parameters, one operator per step.                     *)
(***************************************************************************)
EXTENDS Integers, Sequences, FiniteSets, TLC

(* ------------------------------ bounds --------------------------------- *)

\* longest value list handed to cycler(label, itr)
MaxLen == 2
\* largest integer operand of Cycler * int
MaxRep == 2
\* most compositions the program stacks on x before its last call
MaxRounds == 1
\* most iterators the program holds at once
MaxIters == 2
\* most change events and Run clicks the App receives
MaxEvents == 4

\* property names and property values of the records
Keys == {"a", "b", "c"}
Vals == 1..MaxLen
\* the key of the program's first leaf
FirstKeys == {"a"}
\* the program's variables, in a fixed order
SlotSeq == <<"x", "y">>
Slots == {SlotSeq[n] : n \in 1..Len(SlotSeq)}
\* the variable the program stores a returned Cycler in
Dsts == {"x"}

VARIABLES
    heap,    \* the live Cycler objects: heap[i] = [left, right, op, keys]
    slots,   \* variable -> index into heap, 0 when unbound
    call,    \* the last call made: operation, arguments, outcome
    pc,      \* where the calling program is
    round,   \* the compositions stacked on x so far
    iters,   \* the iterators the program holds
    loading,      \* App: this.state.loading
    editorValue,  \* App: this.state.editorValue
    pyodide,      \* App.js: the module-level interpreter reference
    loader,       \* App.js: the promise window.languagePluginLoader
    reaction,     \* App: how far the callbacks of componentDidMount got
    log           \* App: the editor's change events and the Run clicks

\* the variables of the cycler library's program
cyclerVars == <<heap, slots, call, pc, round, iters>>

\* the variables of the demo App
appVars == <<loading, editorValue, pyodide, loader, reaction, log>>

vars == <<heap, slots, call, pc, round, iters,
          loading, editorValue, pyodide, loader, reaction, log>>

(* ------------------------------ values --------------------------------- *)

\* what a field _left / _right holds: None, a list of dicts, or a Cycler
None == [t |-> "None", v |-> <<>>, id |-> 0]
List(s) == [t |-> "list", v |-> s, id |-> 0]
Ref(i) == [t |-> "Cycler", v |-> <<>>, id |-> i]

\* the value lists a leaf is built from: <<>>, <<1>>, <<1, 2>>, ...
ValueLists == {[n \in 1..m |-> n] : m \in 0..MaxLen}

\* {}: the empty dict
EmptyDict == [k \in {} |-> 0]

\* dict.update: out.update(a); out.update(b), b's entries win
Update(a, b) ==
    [k \in (DOMAIN a) \cup (DOMAIN b) |-> IF k \in DOMAIN b THEN b[k] ELSE a[k]]

Min(m, n) == IF m <= n THEN m ELSE n

\* six.moves.zip: pairs up to the shorter operand
zip(A, B) == [n \in 1..Min(Len(A), Len(B)) |-> <<A[n], B[n]>>]

\* itertools.product(A, B): for a in A: for b in B: yield (a, b)
RECURSIVE product(_, _)
product(A, B) ==
    IF A = <<>> THEN <<>>
    ELSE [n \in 1..Len(B) |-> <<Head(A), B[n]>>] \o product(Tail(A), B)

\* self._op(left, right)
ApplyOp(op, L, R) == IF op = "zip" THEN zip(L, R) ELSE product(L, R)

\* a faulty __len__ that takes the left length for a pairwise node, as if
\* the children always had equal lengths, to show that C18_Length tells the
\* two apart
ApplyLenOp_left(op, l_len, r_len) == IF op = "zip" THEN l_len ELSE l_len * r_len

\* op_dict[self._op](l_len, r_len), op_dict = {zip: min, product: mul}
ApplyLenOp(op, l_len, r_len) == IF op = "zip" THEN Min(l_len, r_len) ELSE l_len * r_len

(* ---------------------------- iteration -------------------------------- *)

RECURSIVE Cycler_iter(_, _)

\* iter(f) for a field value f: a list's elements, a Cycler's records
IterOf(h, f) ==
    IF f.t = "list" THEN f.v
    ELSE IF f.t = "Cycler" THEN Cycler_iter(h, f.id)
    ELSE <<>>

\* the loop body of _compose: out = dict(); out.update(a); out.update(b)
MergePairs(pairs) ==
    [n \in 1..Len(pairs) |-> Update(Update(EmptyDict, pairs[n][1]), pairs[n][2])]

\* Cycler._compose: the records of a composite, in order
Cycler_compose(h, i) ==
    MergePairs(ApplyOp(h[i].op, IterOf(h, h[i].left), IterOf(h, h[i].right)))

\* Cycler.__iter__: the records one full iteration yields
Cycler_iter(h, i) ==
    IF h[i].right.t = "None" THEN IterOf(h, h[i].left)
    ELSE Cycler_compose(h, i)

RECURSIVE Cycler_len(_, _)

\* len(f) for a field value f
LenOf(h, f) ==
    IF f.t = "list" THEN Len(f.v)
    ELSE IF f.t = "Cycler" THEN Cycler_len(h, f.id)
    ELSE 0

\* Cycler.__len__
Cycler_len(h, i) ==
    IF h[i].right.t = "None" THEN LenOf(h, h[i].left)
    ELSE ApplyLenOp(h[i].op, LenOf(h, h[i].left), LenOf(h, h[i].right))

\* Cycler.keys: a copy of the cached key set
Cycler_keys(h, i) == h[i].keys

(* --------------------------- construction ------------------------------ *)

\* the outcome of a call that returns a Cycler: heap, object, error
Ret(h, i, e) == [h |-> h, id |-> i, err |-> e]

\* next(iter(...)) on the elements s: the first one, or StopIteration
PeekSeq(s) ==
    IF s = <<>> THEN [err |-> "StopIteration", d |-> EmptyDict]
    ELSE [err |-> "ok", d |-> s[1]]

\* l_peek / r_peek: next(iter(f)) if f is not None else {}
Peek(h, f) ==
    IF f.t = "None" THEN [err |-> "ok", d |-> EmptyDict] ELSE PeekSeq(IterOf(h, f))

\* the rest of _process_keys once both peeks are taken, l_peek first
process_keys_of(l_peek, r_peek) ==
    IF l_peek.err # "ok" THEN [err |-> l_peek.err, keys |-> {}]
    ELSE IF r_peek.err # "ok" THEN [err |-> r_peek.err, keys |-> {}]
    ELSE IF (DOMAIN l_peek.d) \cap (DOMAIN r_peek.d) # {}
    THEN [err |-> "KeyOverlap", keys |-> {}]
    ELSE [err |-> "ok", keys |-> (DOMAIN l_peek.d) \cup (DOMAIN r_peek.d)]

\* _process_keys(left, right)
process_keys(h, left, right) == process_keys_of(Peek(h, left), Peek(h, right))

\* an object whose __init__ has not finished
Blank == [left |-> None, right |-> None, op |-> "None", keys |-> {}]

RECURSIVE Cycler_init(_, _, _, _)

\* a rebuilt Cycler as the value of the field it is stored in
CopyRet(r) == [h |-> r.h, val |-> Ref(r.id), err |-> r.err]

\* a faulty __init__ that stores the Cycler it is given instead of
\* rebuilding it, to show that C11_NoAliasing tells the two apart
CopyArg_shared(h, a) ==
    IF a.t = "list"
    THEN [h |-> h, val |-> List([n \in 1..Len(a.v) |-> a.v[n]]), err |-> "ok"]
    ELSE [h |-> h, val |-> a, err |-> "ok"]

\* one argument of __init__: a Cycler is rebuilt from its three fields, a
\* list is copied dict by dict, None stays None
CopyArg(h, a) ==
    IF a.t = "Cycler"
    THEN CopyRet(Cycler_init(h, h[a.id].left, h[a.id].right, h[a.id].op))
    ELSE IF a.t = "list"
    THEN [h |-> h, val |-> List([n \in 1..Len(a.v) |-> a.v[n]]), err |-> "ok"]
    ELSE [h |-> h, val |-> None, err |-> "ok"]

\* __init__, last step: self._keys = _process_keys(...); self._op = op
Cycler_init_keys(self, L, R, op, pk) ==
    IF pk.err # "ok" THEN Ret(R.h, self, pk.err)
    ELSE Ret([R.h EXCEPT ![self] = [left |-> L.val, right |-> R.val,
                                    op |-> op, keys |-> pk.keys]],
             self, "ok")

\* __init__ once self._right is set
Cycler_init_right(self, L, R, op) ==
    IF R.err # "ok" THEN Ret(R.h, self, R.err)
    ELSE Cycler_init_keys(self, L, R, op, process_keys(R.h, L.val, R.val))

\* __init__ once self._left is set
Cycler_init_left(self, L, right, op) ==
    IF L.err # "ok" THEN Ret(L.h, self, L.err)
    ELSE Cycler_init_right(self, L, CopyArg(L.h, right), op)

\* Cycler(left, right, op): the object is allocated, then __init__ runs
Cycler_init(h, left, right, op) ==
    Cycler_init_left(Len(h) + 1, CopyArg(Append(h, Blank), left), right, op)

\* a faulty _from_iter that sets ret._left and leaves ret._keys as cls(None)
\* made it, to show that C1_Leaf tells the two apart
Cycler_from_iter_set_no_keys(ret, label, itr) ==
    IF ret.err # "ok" THEN ret
    ELSE Ret([ret.h EXCEPT ![ret.id].left =
                 List([n \in 1..Len(itr) |-> [k \in {label} |-> itr[n]]])],
             ret.id, "ok")

\* _from_iter once ret = cls(None) is made: ret._left and ret._keys are set
Cycler_from_iter_set(ret, label, itr) ==
    IF ret.err # "ok" THEN ret
    ELSE Ret([ret.h EXCEPT ![ret.id] =
                 [left |-> List([n \in 1..Len(itr) |-> [k \in {label} |-> itr[n]]]),
                  right |-> None, op |-> "None", keys |-> {label}]],
             ret.id, "ok")

\* Cycler._from_iter(label, itr)
Cycler_from_iter(h, label, itr) ==
    Cycler_from_iter_set(Cycler_init(h, None, None, "None"), label, itr)

(* ------------------------- the Cycler methods -------------------------- *)

RECURSIVE Cycler_change_key(_, _, _, _)

\* the last branch of change_key: the leaf's records are rewritten
change_key_leaf(h, i, old, new) ==
    IF h[i].left.t # "list" THEN [h |-> h, err |-> "TypeError"]
    ELSE IF \E n \in 1..Len(h[i].left.v) : old \notin DOMAIN h[i].left.v[n]
    THEN [h |-> h, err |-> "KeyNotFound"]
    ELSE [h |-> [h EXCEPT ![i].left =
                    List([n \in 1..Len(h[i].left.v) |->
                             [k \in {new} |-> h[i].left.v[n][old]]])],
          err |-> "ok"]

\* a faulty change_key that tries the left child before the right one, to
\* show that C9_ChangeKey tells the two apart
change_key_child_left_first(h, i, old, new) ==
    IF h[i].left.t = "Cycler"
    THEN Cycler_change_key(h, h[i].left.id, old, new)
    ELSE IF h[i].right.t = "Cycler" /\ old \in Cycler_keys(h, h[i].right.id)
    THEN Cycler_change_key(h, h[i].right.id, old, new)
    ELSE change_key_leaf(h, i, old, new)

\* change_key once self._keys is updated: into the child that has the key
change_key_child(h, i, old, new) ==
    IF h[i].right.t = "Cycler" /\ old \in Cycler_keys(h, h[i].right.id)
    THEN Cycler_change_key(h, h[i].right.id, old, new)
    ELSE IF h[i].left.t = "Cycler"
    THEN Cycler_change_key(h, h[i].left.id, old, new)
    ELSE change_key_leaf(h, i, old, new)

\* a faulty change_key that renames the records and leaves self._keys as
\* it was, to show that C16_KeysConsistent tells the two apart
Cycler_change_key_stale(h, i, old, new) ==
    IF old = new THEN [h |-> h, err |-> "ok"]
    ELSE IF new \in h[i].keys THEN [h |-> h, err |-> "KeyAlreadyExists"]
    ELSE IF old \notin h[i].keys THEN [h |-> h, err |-> "KeyNotFound"]
    ELSE change_key_child(h, i, old, new)

\* Cycler.change_key(old, new), in place; returns the heap as the call left
\* it (also when it raised) and the error
Cycler_change_key(h, i, old, new) ==
    IF old = new THEN [h |-> h, err |-> "ok"]
    ELSE IF new \in h[i].keys THEN [h |-> h, err |-> "KeyAlreadyExists"]
    ELSE IF old \notin h[i].keys THEN [h |-> h, err |-> "KeyNotFound"]
    ELSE change_key_child([h EXCEPT ![i].keys = (@ \ {old}) \cup {new}], i, old, new)

\* by_key over the records recs: out[k].append(d[k])
by_key_of(keys, recs) ==
    IF \E n \in 1..Len(recs) : ~(keys \subseteq DOMAIN recs[n])
    THEN [err |-> "KeyNotFound", out |-> EmptyDict]
    ELSE [err |-> "ok", out |-> [k \in keys |-> [n \in 1..Len(recs) |-> recs[n][k]]]]

\* Cycler.by_key(): key -> the list of its values over one iteration
Cycler_by_key(h, i) == by_key_of(Cycler_keys(h, i), Cycler_iter(h, i))

\* Cycler.__add__(other)
Cycler_add(h, i, j) ==
    IF Cycler_len(h, i) # Cycler_len(h, j) THEN Ret(h, 0, "LengthMismatch")
    ELSE Cycler_init(h, Ref(i), Ref(j), "zip")

\* Cycler.__mul__(other) for a Cycler operand
Cycler_mul(h, i, j) == Cycler_init(h, Ref(i), Ref(j), "product")

\* a faulty _cycler that takes some key of a multi-key Cycler instead of
\* raising, to show that C15_LeafFromCycler tells the two apart
cycler_from_records_any_key(h, label, keys, recs) ==
    IF keys = {} THEN Ret(h, 0, "MultiKey")
    ELSE Cycler_from_iter(h, label,
                          [n \in 1..Len(recs) |-> recs[n][CHOOSE k \in keys : TRUE]])

\* _cycler for a Cycler itr: lab = keys.pop(); itr = (v[lab] for v in itr)
cycler_from_records(h, label, keys, recs) ==
    IF Cardinality(keys) # 1 THEN Ret(h, 0, "MultiKey")
    ELSE IF \E n \in 1..Len(recs) : ~(keys \subseteq DOMAIN recs[n])
    THEN Ret(h, 0, "KeyNotFound")
    ELSE Cycler_from_iter(h, label,
                          [n \in 1..Len(recs) |-> recs[n][CHOOSE k \in keys : TRUE]])

\* _cycler(label, itr): itr is a list of values or a Cycler
cycler_(h, label, itr) ==
    IF itr.t = "Cycler"
    THEN cycler_from_records(h, label, Cycler_keys(h, itr.id), Cycler_iter(h, itr.id))
    ELSE Cycler_from_iter(h, label, itr.v)

\* the orders in which a dict or a set with the keys S may be iterated
Orders(S) ==
    {o \in [1..Cardinality(S) -> S] : \A m, n \in DOMAIN o : m # n => o[m] # o[n]}

RECURSIVE reduce_add(_, _, _, _)

\* reduce: the sum so far becomes the accumulator
reduce_next(sum, ks, trans) ==
    IF sum.err # "ok" THEN sum ELSE reduce_add(sum.h, sum.id, ks, trans)

\* a faulty fold that multiplies where reduce(add, ...) adds, to show that
\* C7_Simplify tells the two apart
reduce_step_mul(acc, leaf) ==
    IF leaf.err # "ok" THEN leaf ELSE Cycler_mul(leaf.h, acc, leaf.id)

\* reduce: add(accumulator, the leaf the generator just made)
reduce_step(acc, leaf) ==
    IF leaf.err # "ok" THEN leaf ELSE Cycler_add(leaf.h, acc, leaf.id)

\* reduce(add, ...) with accumulator acc and the keys ks still to come
reduce_add(h, acc, ks, trans) ==
    IF ks = <<>> THEN Ret(h, acc, "ok")
    ELSE reduce_next(reduce_step(acc, cycler_(h, Head(ks), List(trans[Head(ks)]))),
                     Tail(ks), trans)

\* reduce(add, (_cycler(k, v) for k, v in six.iteritems(trans))), the dict
\* iterated in the order ks
reduce_leaves(h, ks, trans) ==
    IF ks = <<>> THEN Ret(h, 0, "TypeError")
    ELSE reduce_next(cycler_(h, Head(ks), List(trans[Head(ks)])), Tail(ks), trans)

\* the Cycler rebuilt from a by_key() result
from_by_key(h, trans, ks) ==
    IF trans.err # "ok" THEN Ret(h, 0, trans.err) ELSE reduce_leaves(h, ks, trans.out)

RECURSIVE RepeatList(_, _)
\* list * int
RepeatList(v, n) == IF n <= 0 THEN <<>> ELSE v \o RepeatList(v, n - 1)

\* v * other for every v of trans
repeat_all(trans, n) ==
    [err |-> trans.err, out |-> [k \in DOMAIN trans.out |-> RepeatList(trans.out[k], n)]]

\* Cycler.__mul__(other) for an integer operand
Cycler_mul_int(h, i, n, ks) == from_by_key(h, repeat_all(Cycler_by_key(h, i), n), ks)

\* Cycler.simplify()
Cycler_simplify(h, i, ks) == from_by_key(h, Cycler_by_key(h, i), ks)

\* a faulty concat that takes _r[k] + _l[k], to show that C8_Concat tells
\* the two apart
concat_all_swapped(l, r) ==
    IF l.err # "ok" THEN l
    ELSE IF r.err # "ok" THEN r
    ELSE [err |-> "ok", out |-> [k \in DOMAIN l.out |-> r.out[k] \o l.out[k]]]

\* _l[k] + _r[k] for every k
concat_all(l, r) ==
    IF l.err # "ok" THEN l
    ELSE IF r.err # "ok" THEN r
    ELSE [err |-> "ok", out |-> [k \in DOMAIN l.out |-> l.out[k] \o r.out[k]]]

\* concat(left, right)
concat(h, i, j, ks) ==
    IF Cycler_keys(h, i) # Cycler_keys(h, j) THEN Ret(h, 0, "KeyMismatch")
    ELSE from_by_key(h, concat_all(Cycler_by_key(h, i), Cycler_by_key(h, j)), ks)

\* __iadd__ / __imul__, last step: self._right = Cycler(other._left, ...)
InPlace_right(i, R) ==
    IF R.err # "ok" THEN [h |-> R.h, err |-> R.err]
    ELSE [h |-> [R.h EXCEPT ![i].right = Ref(R.id)], err |-> "ok"]

\* __iadd__ / __imul__ once self._keys, self._left and self._op are set
InPlace_set(h, i, j) ==
    InPlace_right(i, Cycler_init(h, h[j].left, h[j].right, h[j].op))

\* a faulty += / *= that sets self._left and self._op before the keys are
\* checked, to show that C17_AtomicFailure tells the two apart
InPlace_keys_early(h, i, j, op, old_self, pk) ==
    IF pk.err # "ok"
    THEN [h |-> [h EXCEPT ![i].left = Ref(old_self), ![i].op = op], err |-> pk.err]
    ELSE InPlace_set([h EXCEPT ![i].keys = pk.keys,
                               ![i].left = Ref(old_self),
                               ![i].op = op], i, j)

\* __iadd__ / __imul__ once _process_keys(old_self, other) has returned
InPlace_keys(h, i, j, op, old_self, pk) ==
    IF pk.err # "ok" THEN [h |-> h, err |-> pk.err]
    ELSE InPlace_set([h EXCEPT ![i].keys = pk.keys,
                               ![i].left = Ref(old_self),
                               ![i].op = op], i, j)

\* __iadd__ / __imul__ once old_self = copy.copy(self) is made
InPlace_copy(h, i, j, op, old_self) ==
    InPlace_keys(h, i, j, op, old_self, process_keys(h, Ref(old_self), Ref(j)))

\* Cycler.__iadd__(other)
Cycler_iadd(h, i, j) == InPlace_copy(Append(h, h[i]), i, j, "zip", Len(h) + 1)

\* Cycler.__imul__(other)
Cycler_imul(h, i, j) == InPlace_copy(Append(h, h[i]), i, j, "product", Len(h) + 1)

\* all(a == b for a, b in zip(self, other))
eq_records(A, B) == \A n \in 1..Min(Len(A), Len(B)) : A[n] = B[n]

\* a faulty __eq__ without the length check, to show that C13_Equality
\* tells the two apart
Cycler_eq_no_len(h, i, j) ==
    IF (Cycler_keys(h, i) \ Cycler_keys(h, j))
         \cup (Cycler_keys(h, j) \ Cycler_keys(h, i)) # {} THEN FALSE
    ELSE eq_records(Cycler_iter(h, i), Cycler_iter(h, j))

\* Cycler.__eq__(other)
Cycler_eq(h, i, j) ==
    IF Cycler_len(h, i) # Cycler_len(h, j) THEN FALSE
    ELSE IF (Cycler_keys(h, i) \ Cycler_keys(h, j))
              \cup (Cycler_keys(h, j) \ Cycler_keys(h, i)) # {} THEN FALSE
    ELSE eq_records(Cycler_iter(h, i), Cycler_iter(h, j))

\* cycler(arg): the copy constructor
cycler_copy(h, i) == Cycler_init(h, Ref(i), None, "None")

(* ------------------------------ slicing -------------------------------- *)

\* an optional integer of a slice object: None, or the integer n
NoInt == [none |-> TRUE, n |-> 0]
Int_(n) == [none |-> FALSE, n |-> n]

Slice(start, stop, step) == [start |-> start, stop |-> stop, step |-> step]

\* the slice objects the program uses: [1:], [:1], [1:1], [::-1]
Slices == {Slice(Int_(1), NoInt, NoInt), Slice(NoInt, Int_(1), NoInt),
           Slice(Int_(1), Int_(1), NoInt), Slice(NoInt, NoInt, Int_(-1))}

RECURSIVE SliceFrom(_, _, _, _)
\* v[i], v[i + step], ... while the index has not reached stop
SliceFrom(v, i, stop, step) ==
    IF (step > 0 /\ i >= stop) \/ (step < 0 /\ i <= stop) THEN <<>>
    ELSE <<v[i + 1]>> \o SliceFrom(v, i + step, stop, step)

\* one bound of a slice as slice.indices(len) adjusts it
SliceBound(x, dflt, lower, upper, len) ==
    IF x.none THEN dflt
    ELSE IF x.n < 0 THEN (IF x.n + len < lower THEN lower ELSE x.n + len)
    ELSE (IF x.n > upper THEN upper ELSE x.n)

\* v[sl] for a step of the given sign
SliceStep(v, sl, step, lower, upper) ==
    SliceFrom(v,
              SliceBound(sl.start, IF step < 0 THEN upper ELSE lower, lower, upper, Len(v)),
              SliceBound(sl.stop, IF step < 0 THEN lower ELSE upper, lower, upper, Len(v)),
              step)

\* list.__getitem__(slice)
SliceList(v, sl) ==
    IF sl.step.none THEN SliceStep(v, sl, 1, 0, Len(v))
    ELSE IF sl.step.n < 0 THEN SliceStep(v, sl, sl.step.n, -1, Len(v) - 1)
    ELSE SliceStep(v, sl, sl.step.n, 0, Len(v))

\* v[key] for every v of trans
slice_all(trans, sl) ==
    [err |-> trans.err, out |-> [k \in DOMAIN trans.out |-> SliceList(trans.out[k], sl)]]

\* Cycler.__getitem__(key) for a slice object
Cycler_getitem(h, i, sl, ks) == from_by_key(h, slice_all(Cycler_by_key(h, i), sl), ks)

\* Cycler.__getitem__(key) for a key that is not a slice object
Cycler_getitem_index(h, i, n) == Ret(h, 0, "SliceOnly")

\* __iadd__ / __imul__ for an operand that is not a Cycler
InPlace_other(h, i) == [h |-> h, err |-> "TypeError"]

(* ------------------------- the calling program ------------------------- *)

RECURSIVE Reach(_, _)
\* the objects reachable from the set S of objects
Reach(h, S) ==
    IF \A i \in S : \A f \in {h[i].left, h[i].right} : f.t = "Cycler" => f.id \in S
    THEN S
    ELSE Reach(h, S \cup {f.id : f \in {g \in UNION {{h[i].left, h[i].right} : i \in S} :
                                          g.t = "Cycler"}})

\* the objects the program's variables refer to
Roots(sl) == {sl[s] : s \in {t \in Slots : sl[t] # 0}}

\* the live objects in the order they are renumbered: by object index
RECURSIVE LiveSeq(_, _)
LiveSeq(live, n) ==
    IF n = 0 THEN <<>>
    ELSE LiveSeq(live, n - 1) \o (IF n \in live THEN <<n>> ELSE <<>>)

\* the new index of the live object i
NewId(order, i) == CHOOSE n \in 1..Len(order) : order[n] = i

\* a field value with its reference renumbered
Renumber(order, f) == IF f.t = "Cycler" THEN Ref(NewId(order, f.id)) ELSE f

\* the heap and the variables with the objects in order kept, renumbered
Compact(h, sl, order) ==
    [h |-> [n \in 1..Len(order) |->
               [h[order[n]] EXCEPT !.left = Renumber(order, @),
                                   !.right = Renumber(order, @)]],
     slots |-> [s \in Slots |-> IF sl[s] = 0 THEN 0 ELSE NewId(order, sl[s])]]

\* reference counting: what no variable reaches is freed
Collect(h, sl) == Compact(h, sl, LiveSeq(Reach(h, Roots(sl)), Len(h)))

\* the record of a call: the operation, its arguments and its outcome
NoCall == [op |-> "none", dst |-> "-", a |-> "-", b |-> "-", key |-> "-",
           new |-> "-", vals |-> <<>>, n |-> 0, sl |-> Slice(NoInt, NoInt, NoInt),
           eq |-> FALSE, err |-> "ok"]

\* the variable s refers to a Cycler
Bound(s) == slots[s] # 0

\* the state after a call: the collected heap, the variables, the call
Store(gc, c) ==
    /\ heap' = gc.h
    /\ slots' = gc.slots
    /\ call' = c

\* a call that returns the Cycler r.id, or raises r.err, with dst = <call>
Returns(r, dst, c) ==
    Store(Collect(r.h, IF r.err = "ok" THEN [slots EXCEPT ![dst] = r.id] ELSE slots),
          [c EXCEPT !.err = r.err, !.dst = dst])

\* a call that changes its receiver in place, or raises r.err
Mutates(r, c) == Store(Collect(r.h, slots), [c EXCEPT !.err = r.err])

\* dst = cycler(key, vals)
MakeLeaf(dst, key, vals) ==
    Returns(cycler_(heap, key, List(vals)), dst,
            [NoCall EXCEPT !.op = "leaf", !.key = key, !.vals = vals])

\* dst = cycler(key, a)
MakeLeafFrom(dst, key, a) ==
    /\ Bound(a)
    /\ Returns(cycler_(heap, key, Ref(slots[a])), dst,
               [NoCall EXCEPT !.op = "leaf_from", !.key = key, !.a = a])

\* dst = cycler(a)
CopyOf(dst, a) ==
    /\ Bound(a)
    /\ Returns(cycler_copy(heap, slots[a]), dst, [NoCall EXCEPT !.op = "copy", !.a = a])

\* dst = a + b
CombinePairwise(dst, a, b) ==
    /\ Bound(a) /\ Bound(b)
    /\ Returns(Cycler_add(heap, slots[a], slots[b]), dst,
               [NoCall EXCEPT !.op = "add", !.a = a, !.b = b])

\* dst = a * b
CombineProduct(dst, a, b) ==
    /\ Bound(a) /\ Bound(b)
    /\ Returns(Cycler_mul(heap, slots[a], slots[b]), dst,
               [NoCall EXCEPT !.op = "mul", !.a = a, !.b = b])

\* dst = a * n
Repeat(dst, a, n) ==
    /\ Bound(a)
    /\ \E ks \in Orders(Cycler_keys(heap, slots[a])) :
          Returns(Cycler_mul_int(heap, slots[a], n, ks), dst,
                  [NoCall EXCEPT !.op = "repeat", !.a = a, !.n = n])

\* a += b
AugmentPairwise(a, b) ==
    /\ Bound(a) /\ Bound(b)
    /\ Mutates(Cycler_iadd(heap, slots[a], slots[b]),
               [NoCall EXCEPT !.op = "iadd", !.a = a, !.b = b])

\* a *= b
AugmentProduct(a, b) ==
    /\ Bound(a) /\ Bound(b)
    /\ Mutates(Cycler_imul(heap, slots[a], slots[b]),
               [NoCall EXCEPT !.op = "imul", !.a = a, !.b = b])

\* a.change_key(old, new)
ChangeKey(a, old, new) ==
    /\ Bound(a)
    /\ Mutates(Cycler_change_key(heap, slots[a], old, new),
               [NoCall EXCEPT !.op = "change_key", !.a = a, !.key = old, !.new = new])

\* dst = a.simplify()
Simplify(dst, a) ==
    /\ Bound(a)
    /\ \E ks \in Orders(Cycler_keys(heap, slots[a])) :
          Returns(Cycler_simplify(heap, slots[a], ks), dst,
                  [NoCall EXCEPT !.op = "simplify", !.a = a])

\* dst = a.concat(b)
Concat(dst, a, b) ==
    /\ Bound(a) /\ Bound(b)
    /\ \E ks \in Orders(Cycler_keys(heap, slots[a])) :
          Returns(concat(heap, slots[a], slots[b], ks), dst,
                  [NoCall EXCEPT !.op = "concat", !.a = a, !.b = b])

\* dst = a[sl]
SliceBy(dst, a, sl) ==
    /\ Bound(a)
    /\ \E ks \in Orders(Cycler_keys(heap, slots[a])) :
          Returns(Cycler_getitem(heap, slots[a], sl, ks), dst,
                  [NoCall EXCEPT !.op = "slice", !.a = a, !.sl = sl])

\* dst = a[n] for an integer n
IndexBy(dst, a, n) ==
    /\ Bound(a)
    /\ Returns(Cycler_getitem_index(heap, slots[a], n), dst,
               [NoCall EXCEPT !.op = "index", !.a = a, !.n = n])

\* a == b: nothing changes, the call record holds the answer
Equals(a, b) ==
    /\ Bound(a) /\ Bound(b)
    /\ Store([h |-> heap, slots |-> slots],
             [NoCall EXCEPT !.op = "eq", !.a = a, !.b = b,
                            !.eq = Cycler_eq(heap, slots[a], slots[b])])

\* a += cycler(key, vals) / a *= cycler(key, vals) once the leaf is made
augment_with(leaf, i, op) ==
    IF leaf.err # "ok" THEN [h |-> leaf.h, err |-> leaf.err]
    ELSE IF op = "zip" THEN Cycler_iadd(leaf.h, i, leaf.id)
    ELSE Cycler_imul(leaf.h, i, leaf.id)

\* a += cycler(key, vals)
AugmentPairwiseWith(a, key, vals) ==
    /\ Bound(a)
    /\ Mutates(augment_with(cycler_(heap, key, List(vals)), slots[a], "zip"),
               [NoCall EXCEPT !.op = "iadd_leaf", !.a = a, !.key = key, !.vals = vals])

\* a *= cycler(key, vals)
AugmentProductWith(a, key, vals) ==
    /\ Bound(a)
    /\ Mutates(augment_with(cycler_(heap, key, List(vals)), slots[a], "product"),
               [NoCall EXCEPT !.op = "imul_leaf", !.a = a, !.key = key, !.vals = vals])

\* a += n / a *= n's in-place form for a value n that is not a Cycler
AugmentWithOther(a, op) ==
    /\ Bound(a)
    /\ Mutates(InPlace_other(heap, slots[a]), [NoCall EXCEPT !.op = op, !.a = a])

\* any one call that changes a Cycler of the program in place
AnyMutation ==
    \/ \E a, b \in Slots : AugmentPairwise(a, b)
    \/ \E a, b \in Slots : AugmentProduct(a, b)
    \/ \E a \in Slots, old, new \in Keys : ChangeKey(a, old, new)
    \/ \E a \in Slots, key \in Keys, vals \in ValueLists : AugmentPairwiseWith(a, key, vals)
    \/ \E a \in Slots, key \in Keys, vals \in ValueLists : AugmentProductWith(a, key, vals)
    \/ \E a \in Slots, op \in {"iadd_other", "imul_other"} : AugmentWithOther(a, op)

\* any one call of the interface on the program's variables
AnyCall ==
    \/ \E dst \in Dsts, key \in Keys, vals \in ValueLists : MakeLeaf(dst, key, vals)
    \/ \E dst \in Dsts, key \in Keys, a \in Slots : MakeLeafFrom(dst, key, a)
    \/ \E dst \in Dsts, a \in Slots : CopyOf(dst, a)
    \/ \E dst \in Dsts, a, b \in Slots : CombinePairwise(dst, a, b)
    \/ \E dst \in Dsts, a, b \in Slots : CombineProduct(dst, a, b)
    \/ \E dst \in Dsts, a \in Slots, n \in 0..MaxRep : Repeat(dst, a, n)
    \/ \E a, b \in Slots : AugmentPairwise(a, b)
    \/ \E a, b \in Slots : AugmentProduct(a, b)
    \/ \E a \in Slots, old, new \in Keys : ChangeKey(a, old, new)
    \/ \E dst \in Dsts, a \in Slots : Simplify(dst, a)
    \/ \E dst \in Dsts, a, b \in Slots : Concat(dst, a, b)
    \/ \E dst \in Dsts, a \in Slots, sl \in Slices : SliceBy(dst, a, sl)
    \/ \E dst \in Dsts, a \in Slots, n \in Vals : IndexBy(dst, a, n)
    \/ \E a, b \in Slots : Equals(a, b)

\* JavaScript values of this.state.loading: a string, or the boolean false
Str(s) == [t |-> "string", s |-> s]
JSFalse == [t |-> "boolean", s |-> "false"]

\* if (v): false and the empty string are falsy
Truthy(v) == IF v.t = "boolean" THEN v.s = "true" ELSE v.s # ""

\* the App once its constructor has run: this.state, and pyodide declared
\* but not assigned
App_constructor ==
    /\ loading = Str("Loading...")
    /\ editorValue = "from js import graph\n"
    /\ pyodide = "undefined"
    /\ loader = "pending"
    /\ reaction = "none"
    /\ log = <<>>

Init ==
    /\ heap = <<>>
    /\ slots = [s \in Slots |-> 0]
    /\ call = NoCall
    /\ pc = "start"
    /\ round = 0
    /\ iters = <<>>
    /\ App_constructor

\* the calls after which the program goes on composing: x has grown
Stacked(c) ==
    /\ c.err = "ok"
    /\ \/ c.op \in {"add", "mul"} /\ c.dst = "x"
       \/ c.op \in {"iadd", "imul"} /\ c.a = "x"

\* x = cycler(key, vals)
BindFirst ==
    /\ pc = "start"
    /\ \E key \in FirstKeys, vals \in ValueLists : MakeLeaf("x", key, vals)
    /\ pc' = "operand"
    /\ UNCHANGED <<round, iters>>
    /\ UNCHANGED appVars

\* y = cycler(key, vals)
BindOperand ==
    /\ pc = "operand"
    /\ \E key \in Keys, vals \in ValueLists : MakeLeaf("y", key, vals)
    /\ pc' = "call"
    /\ UNCHANGED <<round, iters>>
    /\ UNCHANGED appVars

\* a composition that grows x, after which the program binds y afresh
Compose ==
    /\ pc = "call"
    /\ round < MaxRounds
    /\ AnyCall
    /\ Stacked(call')
    /\ pc' = "operand"
    /\ round' = round + 1
    /\ UNCHANGED iters
    /\ UNCHANGED appVars

\* right after a composition, while y is still the operand x was built
\* from, the program changes x or y in place, and that is its last call
MutateAfter ==
    /\ pc = "operand"
    /\ round > 0
    /\ AnyMutation
    /\ pc' = "mutated"
    /\ UNCHANGED <<round, iters>>
    /\ UNCHANGED appVars

\* the program's last call
LastCall ==
    /\ pc = "call"
    /\ AnyCall
    /\ pc' = "stop"
    /\ UNCHANGED <<round, iters>>
    /\ UNCHANGED appVars

(* ----------------------------- iterators ------------------------------- *)

\* iter(c): __iter__ returns a new iterator (a generator over the list of a
\* leaf, or a new _compose() generator), which has yielded nothing yet
Cycler_iter_new(i) == [id |-> i, pos |-> 0, out |-> <<>>, done |-> FALSE]

\* a faulty next(it) that keeps one cursor per Cycler, advanced by every
\* iterator over it, to show that C10_Restartable tells the two apart
iter_advance_shared(its, n, recs) ==
    IF its[n].pos < Len(recs)
    THEN [m \in DOMAIN its |->
             IF m = n
             THEN [its[m] EXCEPT !.pos = @ + 1, !.out = Append(@, recs[its[n].pos + 1])]
             ELSE IF its[m].id = its[n].id /\ ~its[m].done
             THEN [its[m] EXCEPT !.pos = @ + 1]
             ELSE its[m]]
    ELSE [its EXCEPT ![n].done = TRUE]

\* next(it) on the iterator its[n] whose Cycler yields recs: the record at
\* its own position, or StopIteration once they are exhausted
iter_advance(its, n, recs) ==
    IF its[n].pos < Len(recs)
    THEN [its EXCEPT ![n].pos = @ + 1, ![n].out = Append(@, recs[its[n].pos + 1])]
    ELSE [its EXCEPT ![n].done = TRUE]

\* next(its[n])
iter_next(h, its, n) == iter_advance(its, n, Cycler_iter(h, its[n].id))

\* it = iter(x): the program has made its compositions and now only iterates
StartIter ==
    /\ pc \in {"call", "iterate"}
    /\ Len(iters) < MaxIters
    /\ iters' = Append(iters, Cycler_iter_new(slots["x"]))
    /\ pc' = "iterate"
    /\ UNCHANGED <<heap, slots, call, round>>
    /\ UNCHANGED appVars

\* next(it) for one of the program's iterators that is not exhausted
NextRecord ==
    /\ pc = "iterate"
    /\ \E n \in DOMAIN iters :
          /\ ~iters[n].done
          /\ iters' = iter_next(heap, iters, n)
    /\ UNCHANGED <<heap, slots, call, pc, round>>
    /\ UNCHANGED appVars

Next ==
    \/ BindFirst \/ BindOperand \/ Compose \/ MutateAfter \/ LastCall
    \/ StartIter \/ NextRecord

Spec == Init /\ [][Next]_vars

(* ----------------------------- the demo App ---------------------------- *)

\* the texts the user types into the editor
Texts == {"graph.add_node(1)", "import sys"}

\* render(): the message while loading is truthy, else the editor with its
\* value and the Run button
App_render ==
    IF Truthy(loading) THEN [view |-> "message", shown |-> loading.s]
    ELSE [view |-> "editor", shown |-> editorValue]

\* a faulty catch callback that clears loading, so that the editor is
\* rendered without an interpreter, to show that C19_App tells the two apart
App_catch_clears == JSFalse

\* the state the catch callback sets
App_catch == Str("Failed to load. Please try again later.")

\* componentDidMount(): the then and catch callbacks are registered
ComponentDidMount ==
    /\ reaction = "none"
    /\ reaction' = "registered"
    /\ UNCHANGED <<loading, editorValue, pyodide, loader, log>>
    /\ UNCHANGED cyclerVars

\* window.languagePluginLoader settles: the plugin loads or fails to load
LoaderSettles ==
    /\ loader = "pending"
    /\ \E outcome \in {"resolved", "rejected"} : loader' = outcome
    /\ UNCHANGED <<loading, editorValue, pyodide, reaction, log>>
    /\ UNCHANGED cyclerVars

\* the then callback: pyodide = window.pyodide, the runtime test, and
\* setState({ loading: false }); when the test throws, the catch callback
\* runs instead of the setState
ThenCallback ==
    /\ reaction = "registered"
    /\ loader = "resolved"
    /\ pyodide' = "window.pyodide"
    /\ \E test \in {"passed", "threw"} :
          IF test = "passed"
          THEN loading' = JSFalse /\ reaction' = "loaded"
          ELSE loading' = App_catch /\ reaction' = "test failed"
    /\ UNCHANGED <<editorValue, loader, log>>
    /\ UNCHANGED cyclerVars

\* the catch callback after the loader was rejected
CatchCallback ==
    /\ reaction = "registered"
    /\ loader = "rejected"
    /\ loading' = App_catch
    /\ reaction' = "load failed"
    /\ UNCHANGED <<editorValue, pyodide, loader, log>>
    /\ UNCHANGED cyclerVars

\* handleChange(v, e): the editor, when rendered, reports its new text
HandleChange ==
    /\ App_render.view = "editor"
    /\ Len(log) < MaxEvents
    /\ \E v \in Texts :
          /\ editorValue' = v
          /\ log' = Append(log, [ev |-> "change", text |-> v, interp |-> "-",
                                 raised |-> FALSE])
    /\ UNCHANGED <<loading, pyodide, loader, reaction>>
    /\ UNCHANGED cyclerVars

\* runCode(): the Run button, when rendered, is clicked;
\* pyodide.runPython(this.state.editorValue) may raise, which changes
\* nothing (on an unassigned pyodide it always raises)
RunCode ==
    /\ App_render.view = "editor"
    /\ Len(log) < MaxEvents
    /\ \E raised \in BOOLEAN :
          /\ pyodide = "undefined" => raised
          /\ log' = Append(log, [ev |-> "run", text |-> editorValue,
                                 interp |-> pyodide, raised |-> raised])
    /\ UNCHANGED <<loading, editorValue, pyodide, loader, reaction>>
    /\ UNCHANGED cyclerVars

AppNext ==
    \/ ComponentDidMount \/ LoaderSettles \/ ThenCallback \/ CatchCallback
    \/ HandleChange \/ RunCode

AppSpec == Init /\ [][AppNext]_vars

(* ------------------------------- claims -------------------------------- *)

\* the Cycler the variable s refers to
Obj(s) == slots[s]

\* the records {key: v} for the values v of vals, in order
LeafRecords(key, vals) == [n \in 1..Len(vals) |-> [k \in {key} |-> vals[n]]]

\* C1: after cycler(k, values), for every key k and every value list
\* (the empty one included), the call has succeeded and the leaf it returned
\* has length n, key set {k}, and iterates to {k: v0}, ..., {k: vn-1} in
\* input order.
C1_Leaf ==
    call.op = "leaf" =>
        /\ call.err = "ok"
        /\ Cycler_len(heap, Obj(call.dst)) = Len(call.vals)
        /\ Cycler_keys(heap, Obj(call.dst)) = {call.key}
        /\ Cycler_iter(heap, Obj(call.dst)) = LeafRecords(call.key, call.vals)

\* C1 witness: y was just built from MaxLen values while x is a leaf built
\* from no values at all
C1_Witness ==
    /\ call.op = "leaf" /\ call.dst = "y" /\ call.err = "ok"
    /\ Len(call.vals) = MaxLen
    /\ Cycler_iter(heap, Obj("y")) = LeafRecords(call.key, call.vals)
    /\ pc = "call" /\ round = 0
    /\ Cycler_len(heap, Obj("x")) = 0
    /\ Cycler_keys(heap, Obj("x")) = {"a"}

\* the step is a call of the operation op
Called(op) == pc = "call" /\ pc' \in {"operand", "stop"} /\ call'.op = op

\* the Cyclers of the variables a and b have no key in common
Disjoint(a, b) == Cycler_keys(heap, Obj(a)) \cap Cycler_keys(heap, Obj(b)) = {}

\* the i-th record of A united with the i-th record of B, for every i
PairwiseRecords(A, B) == [n \in 1..Min(Len(A), Len(B)) |-> Update(A[n], B[n])]

\* C2: for all A and B with disjoint key sets, A + B with equal lengths
\* succeeds and iterates to the records whose i-th is the union of A's i-th
\* and B's i-th; with unequal lengths it raises the length-mismatch error and
\* returns no Cycler.
C2_Pairwise ==
    [][(Called("add") /\ Disjoint(call'.a, call'.b)) =>
          IF Cycler_len(heap, Obj(call'.a)) = Cycler_len(heap, Obj(call'.b))
          THEN /\ call'.err = "ok"
               /\ Cycler_iter(heap', slots'[call'.dst]) =
                      PairwiseRecords(Cycler_iter(heap, Obj(call'.a)),
                                      Cycler_iter(heap, Obj(call'.b)))
          ELSE /\ call'.err = "LengthMismatch"
               /\ heap' = heap /\ slots' = slots]_vars

\* the lengths of the Cyclers of the variables a and b
LenA(a) == Cycler_len(heap, Obj(a))

\* the key set, the length and the records that make two Cyclers equal:
\* i in the heap h1 and j in the heap h2
Same(h1, i, h2, j) ==
    /\ Cycler_len(h1, i) = Cycler_len(h2, j)
    /\ Cycler_keys(h1, i) = Cycler_keys(h2, j)
    /\ Cycler_iter(h1, i) = Cycler_iter(h2, j)

\* C3: a += b obeys the length precondition of a + b: with different lengths
\* the call raises the length-mismatch error and changes nothing, and no
\* pairwise composite whose children differ in length ever exists.
C3_AugmentPairwise ==
    /\ [][(Called("iadd") /\ Disjoint(call'.a, call'.b)
             /\ LenA(call'.a) # LenA(call'.b))
          => (call'.err = "LengthMismatch" /\ heap' = heap /\ slots' = slots)]_vars
    /\ [](\A i \in DOMAIN heap :
             heap[i].op = "zip" =>
                 LenOf(heap, heap[i].left) = LenOf(heap, heap[i].right))

\* C4: for a + b, a * b, a += b and a *= b alike, whenever the operands
\* share a key the call raises the key-overlap error and creates no
\* composite: the heap and the variables stay as they were.
C4_KeyOverlap ==
    [][\A op \in {"add", "mul", "iadd", "imul"} :
          (Called(op) /\ ~Disjoint(call'.a, call'.b))
          => (call'.err = "KeyOverlap" /\ heap' = heap /\ slots' = slots)]_vars

\* C5: for all A and B with disjoint key sets, of length 0 too, A * B
\* succeeds, has length length(A) * length(B), and its record at position
\* i * length(B) + j is the union of A's i-th and B's j-th record.
C5_Product ==
    [][(Called("mul") /\ Disjoint(call'.a, call'.b)) =>
          /\ call'.err = "ok"
          /\ Cycler_len(heap', slots'[call'.dst]) = LenA(call'.a) * LenA(call'.b)
          /\ Len(Cycler_iter(heap', slots'[call'.dst])) = LenA(call'.a) * LenA(call'.b)
          /\ \A i \in 0..(LenA(call'.a) - 1), j \in 0..(LenA(call'.b) - 1) :
                Cycler_iter(heap', slots'[call'.dst])[i * LenA(call'.b) + j + 1] =
                    Update(Cycler_iter(heap, Obj(call'.a))[i + 1],
                           Cycler_iter(heap, Obj(call'.b))[j + 1])]_vars

\* C6: for every C and every n >= 0, C * n succeeds and by_key of the
\* result is, key by key, by_key of C repeated n times; C * 1 equals C, and
\* C * 0 has length 0, also when C has more than one key.
C6_Repeat ==
    [][Called("repeat") =>
          /\ call'.err = "ok"
          /\ Cycler_by_key(heap', slots'[call'.dst]).err = "ok"
          /\ DOMAIN Cycler_by_key(heap', slots'[call'.dst]).out =
                 DOMAIN Cycler_by_key(heap, Obj(call'.a)).out
          /\ \A k \in Cycler_keys(heap, Obj(call'.a)) :
                Cycler_by_key(heap', slots'[call'.dst]).out[k] =
                    RepeatList(Cycler_by_key(heap, Obj(call'.a)).out[k], call'.n)
          /\ call'.n = 1 => Same(heap', slots'[call'.dst], heap, Obj(call'.a))
          /\ call'.n = 0 => Cycler_len(heap', slots'[call'.dst]) = 0]_vars

\* the key set of the Cycler of the variable s
KeysOf(s) == Cycler_keys(heap, Obj(s))

\* C7: for every Cycler C the program can reach (a leaf, a pairwise or
\* product composite, an augmented Cycler, a copy, a slice, a renamed
\* Cycler, ...) and every order in which by_key()'s dict may be iterated,
\* C.simplify() succeeds and equals C: same length, same key set, equal
\* records in iteration order, by __eq__ in both directions.
C7_Simplify ==
    \A s \in Slots :
        Bound(s) =>
            \A ks \in Orders(KeysOf(s)) :
                LET r == Cycler_simplify(heap, Obj(s), ks)
                IN  /\ r.err = "ok"
                    /\ Cycler_eq(r.h, r.id, Obj(s))
                    /\ Cycler_eq(r.h, Obj(s), r.id)
                    /\ Same(r.h, r.id, heap, Obj(s))

\* C7 witness: x = x.simplify() has just returned for a two-key x of four
\* records (a product), and x is now a sum of leaves
C7_Witness ==
    /\ call.op = "simplify" /\ call.err = "ok" /\ call.a = "x" /\ call.dst = "x"
    /\ Cardinality(KeysOf("x")) = 2
    /\ Cycler_len(heap, Obj("x")) = 4
    /\ heap[Obj("x")].op = "zip"
    /\ Cycler_iter(heap, Obj("x"))[2] # Cycler_iter(heap, Obj("x"))[3]

\* C8: for all A and B with equal key sets, concat(A, B) succeeds, has
\* length length(A) + length(B), by_key of it is by_key(A)[k] followed by
\* by_key(B)[k] for every key k, and it iterates to A's records followed by
\* B's; with different key sets it raises the key-mismatch error and returns
\* no Cycler.
C8_Concat ==
    \A a, b \in Slots :
        (Bound(a) /\ Bound(b)) =>
            \A ks \in Orders(KeysOf(a)) :
                LET r == concat(heap, Obj(a), Obj(b), ks)
                IN  IF KeysOf(a) = KeysOf(b)
                    THEN /\ r.err = "ok"
                         /\ Cycler_len(r.h, r.id) = LenA(a) + LenA(b)
                         /\ Cycler_keys(r.h, r.id) = KeysOf(a)
                         /\ Cycler_by_key(r.h, r.id).err = "ok"
                         /\ \A k \in KeysOf(a) :
                               Cycler_by_key(r.h, r.id).out[k] =
                                   Cycler_by_key(heap, Obj(a)).out[k]
                                       \o Cycler_by_key(heap, Obj(b)).out[k]
                         /\ Cycler_iter(r.h, r.id) =
                                Cycler_iter(heap, Obj(a)) \o Cycler_iter(heap, Obj(b))
                    ELSE /\ r.err = "KeyMismatch"
                         /\ r.id = 0
                         /\ r.h = heap

\* C8 witness: x = x.concat(y) has just returned for single-key leaves of
\* different lengths, y's records now following x's
C8_Witness ==
    /\ call.op = "concat" /\ call.err = "ok"
    /\ call.a = "x" /\ call.b = "y" /\ call.dst = "x"
    /\ Cycler_len(heap, Obj("y")) = 1
    /\ Cycler_len(heap, Obj("x")) = 3
    /\ Cycler_iter(heap, Obj("x"))[3] = Cycler_iter(heap, Obj("y"))[1]
    /\ Cycler_iter(heap, Obj("x"))[2] # Cycler_iter(heap, Obj("y"))[1]

\* a record with the value of old stored under new
Renamed(rec, old, new) ==
    [k \in ((DOMAIN rec) \ {old}) \cup {new} |-> IF k = new THEN rec[old] ELSE rec[k]]

\* C9: for every Cycler C, leaf or composite, and all keys old and new:
\* C.change_key(old, new) with old = new changes nothing; with new a key of
\* C it raises KeyAlreadyExists; with neither a key of C it raises
\* KeyNotFound; otherwise the key set of C is the old one with old replaced
\* by new, the length is unchanged, and every record is the record before
\* the call with the value of old stored under new.
C9_ChangeKey ==
    \A s \in Slots :
        Bound(s) =>
            \A old, new \in Keys :
                LET r == Cycler_change_key(heap, Obj(s), old, new)
                IN  IF old = new THEN r.err = "ok" /\ r.h = heap
                    ELSE IF new \in KeysOf(s) THEN r.err = "KeyAlreadyExists"
                    ELSE IF old \notin KeysOf(s) THEN r.err = "KeyNotFound"
                    ELSE /\ r.err = "ok"
                         /\ Cycler_keys(r.h, Obj(s)) = (KeysOf(s) \ {old}) \cup {new}
                         /\ Cycler_len(r.h, Obj(s)) = Cycler_len(heap, Obj(s))
                         /\ Len(Cycler_iter(r.h, Obj(s))) = Len(Cycler_iter(heap, Obj(s)))
                         /\ \A n \in 1..Len(Cycler_iter(heap, Obj(s))) :
                               Cycler_iter(r.h, Obj(s))[n] =
                                   Renamed(Cycler_iter(heap, Obj(s))[n], old, new)

\* C9 witness: x.change_key(old, new) has just returned for a composite x
\* of two or more records, and the renamed key is a key of x's right child
C9_Witness ==
    /\ call.op = "change_key" /\ call.err = "ok" /\ call.a = "x"
    /\ call.key # call.new
    /\ heap[Obj("x")].right.t = "Cycler"
    /\ call.new \in Cycler_keys(heap, heap[Obj("x")].right.id)
    /\ call.new \in KeysOf("x") /\ call.key \notin KeysOf("x")
    /\ Cycler_len(heap, Obj("x")) >= 2
    /\ \A n \in 1..Cycler_len(heap, Obj("x")) :
          call.new \in DOMAIN Cycler_iter(heap, Obj("x"))[n]

\* C10: every iterator starts at the first record of its Cycler and yields
\* the records of a full iteration in order, however many other iterators
\* over the same Cycler exist, finished or not, and however their steps
\* interleave: what an iterator has yielded is always a prefix of the full
\* sequence, at its own position, and all of it once the iterator is
\* exhausted.
C10_Restartable ==
    \A n \in DOMAIN iters :
        LET recs == Cycler_iter(heap, iters[n].id)
        IN  /\ iters[n].pos = Len(iters[n].out)
            /\ iters[n].pos <= Len(recs)
            /\ iters[n].out = SubSeq(recs, 1, iters[n].pos)
            /\ iters[n].done => iters[n].out = recs

\* C10 witness: two iterators over the same composite of four records, the
\* first exhausted, the second, started later, in mid-course
C10_Witness ==
    /\ Len(iters) = 2
    /\ iters[1].id = iters[2].id
    /\ heap[iters[1].id].right.t = "Cycler"
    /\ Len(Cycler_iter(heap, iters[1].id)) = 4
    /\ iters[1].done /\ Len(iters[1].out) = 4
    /\ ~iters[2].done /\ Len(iters[2].out) = 2

\* the step is a call of one of the operations ops, wherever in the program
Step(ops) ==
    /\ pc \in {"call", "operand"}
    /\ pc' \in {"operand", "stop", "mutated"}
    /\ call'.op \in ops

\* the operations that change their receiver in place
InPlaceOps == {"change_key", "iadd", "imul", "iadd_leaf", "imul_leaf"}

\* the Cycler of the variable t is, after the step, the Cycler it was
Kept(t) == slots'[t] # 0 /\ Same(heap', slots'[t], heap, slots[t])

\* the places an object is referred to from: variables and fields
Referrers(i) ==
    {<<"var", s>> : s \in {t \in Slots : slots[t] = i}}
        \cup {<<"left", j>> : j \in {k \in DOMAIN heap : heap[k].left = Ref(i)}}
        \cup {<<"right", j>> : j \in {k \in DOMAIN heap : heap[k].right = Ref(i)}}

\* C11: composition never aliases state. Every call that changes a Cycler
\* in place (change_key, +=, *=), also right after x was built from y by
\* +, *, += or *=, leaves the keys, the length and the records of every
\* other Cycler of the program as they were; and no Cycler object is ever
\* referred to from two places (two variables, two fields, or a variable
\* and a field).
C11_NoAliasing ==
    /\ [][Step(InPlaceOps) =>
             \A t \in Slots : (t # call'.a /\ Bound(t)) => Kept(t)]_vars
    /\ [](\A i \in DOMAIN heap : Cardinality(Referrers(i)) = 1)

\* C11 witness: x was built from x and y, and then y += cycler(key, vals)
\* succeeded: y has two keys now and x still has the key it took from y
C11_Witness ==
    /\ pc = "mutated" /\ round = 1
    /\ call.op = "iadd_leaf" /\ call.a = "y" /\ call.err = "ok"
    /\ Cardinality(KeysOf("y")) = 2
    /\ Cardinality(KeysOf("x")) = 2
    /\ KeysOf("x") \cap KeysOf("y") # {}
    /\ call.key \notin KeysOf("x")
    /\ Cycler_len(heap, Obj("x")) >= 2

\* in the heap h, neither a change_key nor an in-place augment (with a new
\* leaf) of the Cycler i changes the Cycler j
Unaffected(h, i, j) ==
    /\ \A old, new \in Keys :
          Same(Cycler_change_key(h, i, old, new).h, j, h, j)
    /\ \A key \in Keys, vals \in ValueLists, op \in {"zip", "product"} :
          Same(augment_with(cycler_(h, key, List(vals)), i, op).h, j, h, j)

\* C12: for every Cycler C, a leaf of no values included, cycler(C)
\* succeeds and returns a new Cycler equal to C (same length, keys and
\* records in order) and independent of it: a later change_key or in-place
\* augment of either one does not change the other.
C12_CopyOf ==
    [][Step({"copy"}) =>
          /\ call'.err = "ok"
          /\ Same(heap', slots'[call'.dst], heap, Obj(call'.a))
          /\ call'.a # call'.dst =>
                /\ slots'[call'.a] # slots'[call'.dst]
                /\ Unaffected(heap', slots'[call'.a], slots'[call'.dst])
                /\ Unaffected(heap', slots'[call'.dst], slots'[call'.a])]_vars

\* both calls succeeded and the Cyclers they made, p.id and the receiver i
\* of the in-place call q, compare equal in both directions
EqualBuilds(p, q, i) ==
    (p.err = "ok" /\ q.err = "ok") =>
        (Cycler_eq(q.h, p.id, i) /\ Cycler_eq(q.h, i, p.id))

\* C13: A == B holds if and only if A and B have the same length, the same
\* key set and equal records at every index; so == is reflexive and
\* symmetric, and it does not depend on how a Cycler was built: a copy
\* equals its original, and a + b and a * b equal what a += b and a *= b
\* make of a.
C13_Equality ==
    /\ call.op = "eq" =>
          call.eq = Same(heap, Obj(call.a), heap, Obj(call.b))
    /\ \A a, b \in Slots :
          (Bound(a) /\ Bound(b)) =>
              /\ Cycler_eq(heap, Obj(a), Obj(b)) = Same(heap, Obj(a), heap, Obj(b))
              /\ Cycler_eq(heap, Obj(a), Obj(b)) = Cycler_eq(heap, Obj(b), Obj(a))
              /\ Cycler_eq(heap, Obj(a), Obj(a))
              /\ EqualBuilds(Cycler_add(heap, Obj(a), Obj(b)),
                             Cycler_iadd(Cycler_add(heap, Obj(a), Obj(b)).h, Obj(a), Obj(b)),
                             Obj(a))
              /\ EqualBuilds(Cycler_mul(heap, Obj(a), Obj(b)),
                             Cycler_imul(Cycler_mul(heap, Obj(a), Obj(b)).h, Obj(a), Obj(b)),
                             Obj(a))
    /\ \A s \in Slots :
          Bound(s) =>
              LET r == cycler_copy(heap, Obj(s))
              IN  r.err = "ok" =>
                      (Cycler_eq(r.h, r.id, Obj(s)) /\ Cycler_eq(r.h, Obj(s), r.id))

\* C13 witness: x == y was just asked for a product x and a leaf y that
\* have the same length but not the same keys, and the answer is no
C13_Witness ==
    /\ call.op = "eq" /\ call.a = "x" /\ call.b = "y"
    /\ ~call.eq
    /\ heap[Obj("x")].op = "product"
    /\ Cycler_len(heap, Obj("x")) = Cycler_len(heap, Obj("y"))
    /\ Cycler_len(heap, Obj("x")) = 2
    /\ KeysOf("x") # KeysOf("y")

\* C14: for every Cycler C and every slice s, one that selects nothing
\* included, C[s] succeeds and returns a Cycler with the key set of C whose
\* by_key is, key by key, by_key of C sliced by s; C itself is unchanged;
\* and C[n] for an integer n raises the only-slices error and changes
\* nothing.
C14_SliceBy ==
    /\ [][Step({"slice"}) =>
             /\ call'.err = "ok"
             /\ Cycler_keys(heap', slots'[call'.dst]) = KeysOf(call'.a)
             /\ Cycler_by_key(heap', slots'[call'.dst]).err = "ok"
             /\ \A k \in KeysOf(call'.a) :
                   Cycler_by_key(heap', slots'[call'.dst]).out[k] =
                       SliceList(Cycler_by_key(heap, Obj(call'.a)).out[k], call'.sl)
             /\ call'.a # call'.dst => Kept(call'.a)]_vars
    /\ [][Step({"index"}) =>
             (call'.err = "SliceOnly" /\ heap' = heap /\ slots' = slots)]_vars

\* the records {name: v} for the values v the records recs hold under k
Relabelled(name, k, recs) == [n \in 1..Len(recs) |-> [j \in {name} |-> recs[n][k]]]

\* C15: cycler(name, S) for a Cycler S. If S has exactly one key k the call
\* returns a leaf with key set {name} whose i-th record is {name: v} for
\* the value v of k in S's i-th record, and S keeps its key, length and
\* records; if S has more than one key the call raises and returns no
\* Cycler.
C15_LeafFromCycler ==
    \A s \in Slots :
        Bound(s) =>
            \A name \in Keys :
                LET r == cycler_(heap, name, Ref(Obj(s)))
                IN  IF Cardinality(KeysOf(s)) = 1
                    THEN /\ r.err = "ok"
                         /\ r.id \notin DOMAIN heap
                         /\ r.h[r.id].left.t = "list" /\ r.h[r.id].right.t = "None"
                         /\ Cycler_keys(r.h, r.id) = {name}
                         /\ Cycler_len(r.h, r.id) = Cycler_len(heap, Obj(s))
                         /\ Cycler_iter(r.h, r.id) =
                                Relabelled(name, CHOOSE k \in KeysOf(s) : TRUE,
                                           Cycler_iter(heap, Obj(s)))
                         /\ Same(r.h, Obj(s), heap, Obj(s))
                    ELSE /\ r.err = "MultiKey"
                         /\ r.id = 0
                         /\ r.h = heap

\* C15 witness: x = cycler(name, y) has just returned for a leaf y of
\* MaxLen values under another key; x holds y's values under name
C15_Witness ==
    /\ call.op = "leaf_from" /\ call.a = "y" /\ call.dst = "x" /\ call.err = "ok"
    /\ KeysOf("y") # {call.key}
    /\ KeysOf("x") = {call.key}
    /\ Cycler_len(heap, Obj("y")) = MaxLen
    /\ Cycler_iter(heap, Obj("x")) =
           Relabelled(call.key, CHOOSE k \in KeysOf("y") : TRUE, Cycler_iter(heap, Obj("y")))

\* C16: after any sequence of calls, every record that any Cycler yields
\* has exactly the keys of that Cycler's cached key set; this holds for
\* every node of every composition tree (every object of the heap), also
\* after change_key and after += and *=.
C16_KeysConsistent ==
    \A i \in DOMAIN heap :
        \A n \in 1..Len(Cycler_iter(heap, i)) :
            DOMAIN Cycler_iter(heap, i)[n] = Cycler_keys(heap, i)

\* C16 witness: x.change_key(old, new) has just succeeded right after x was
\* composed from y; the renamed key belongs to a child of x, and x and that
\* child yield records under the new key
C16_Witness ==
    /\ pc = "mutated" /\ round = 1
    /\ call.op = "change_key" /\ call.a = "x" /\ call.err = "ok"
    /\ call.key # call.new
    /\ \E i \in DOMAIN heap :
          /\ i # Obj("x")
          /\ Cycler_keys(heap, i) = {call.new}
          /\ Len(Cycler_iter(heap, i)) >= 2
          /\ Ref(i) \in {heap[Obj("x")].left, heap[Obj("x")].right}
    /\ Len(Cycler_iter(heap, Obj("x"))) >= 2
    /\ call.new \in DOMAIN Cycler_iter(heap, Obj("x"))[2]
    /\ call.key \notin DOMAIN Cycler_iter(heap, Obj("x"))[2]

\* every operation of the program
AllOps ==
    {"leaf", "leaf_from", "copy", "add", "mul", "repeat", "iadd", "imul",
     "change_key", "simplify", "concat", "slice", "index", "eq",
     "iadd_leaf", "imul_leaf", "iadd_other", "imul_other"}

\* the heap as a failed in-place call r leaves it, once what it allocated
\* is freed, is the heap as it was
RolledBack(r) == r.err # "ok" => Collect(r.h, slots).h = heap

\* C17: every failing call fails atomically. When +=, *= or change_key
\* raises (key overlap, an operand that is not a Cycler, new key present,
\* old key absent, ...), and when +, *, concat, a slice or a repeat raises,
\* every Cycler of the program, the receiver and the other operand
\* included, has the keys, length, records and composition structure it had
\* before the call: the heap and the variables are unchanged. This holds
\* for the calls the program makes and for every in-place call it could
\* make in any reachable state.
C17_AtomicFailure ==
    /\ [][(Step(AllOps) /\ call'.err # "ok") => (heap' = heap /\ slots' = slots)]_vars
    /\ [](\A a \in Slots :
             Bound(a) =>
                 /\ \A old, new \in Keys :
                       RolledBack(Cycler_change_key(heap, Obj(a), old, new))
                 /\ \A b \in Slots :
                       Bound(b) =>
                           /\ RolledBack(Cycler_iadd(heap, Obj(a), Obj(b)))
                           /\ RolledBack(Cycler_imul(heap, Obj(a), Obj(b))))

\* C17 witness: x *= y has just raised the key-overlap error right after x
\* was composed from y; x is still the composite of two keys it was
C17_Witness ==
    /\ pc = "mutated" /\ round = 1
    /\ call.op = "imul" /\ call.a = "x" /\ call.b = "y"
    /\ call.err = "KeyOverlap"
    /\ heap[Obj("x")].right.t = "Cycler"
    /\ Cardinality(KeysOf("x")) = 2
    /\ KeysOf("y") \subseteq KeysOf("x")
    /\ Cycler_len(heap, Obj("x")) >= 2

\* C18: for every Cycler the program can reach, and every node of its
\* composition tree, the length computed from the structure (a leaf: the
\* number of stored records; a pairwise node: the minimum of the children's
\* lengths; a product node: their product; a copy wrapper: the length of
\* the wrapped Cycler) is the number of records a full iteration yields.
C18_Length ==
    \A i \in DOMAIN heap :
        /\ Cycler_len(heap, i) = Len(Cycler_iter(heap, i))
        /\ heap[i].right.t = "None" => Cycler_len(heap, i) = LenOf(heap, heap[i].left)
        /\ heap[i].op = "zip" =>
               Cycler_len(heap, i) = Min(LenOf(heap, heap[i].left), LenOf(heap, heap[i].right))
        /\ heap[i].op = "product" =>
               Cycler_len(heap, i) = LenOf(heap, heap[i].left) * LenOf(heap, heap[i].right)

\* C18 witness: x += y has just succeeded for an x of two records and a y
\* of one; x is a pairwise node whose children differ in length, its
\* length is 1 and it yields one record
C18_Witness ==
    /\ call.op = "iadd" /\ call.a = "x" /\ call.b = "y" /\ call.err = "ok"
    /\ heap[Obj("x")].op = "zip"
    /\ LenOf(heap, heap[Obj("x")].left) = 2
    /\ LenOf(heap, heap[Obj("x")].right) = 1
    /\ Cycler_len(heap, Obj("x")) = 1
    /\ Len(Cycler_iter(heap, Obj("x"))) = 1

\* the text of the last change event before the n-th event of the log, or
\* the editor's initial text when there is none
RECURSIVE LastChange(_)
LastChange(n) ==
    IF n <= 1 THEN "from js import graph\n"
    ELSE IF log[n - 1].ev = "change" THEN log[n - 1].text
    ELSE LastChange(n - 1)

\* C19: loading starts as 'Loading...' and changes at most once: to false
\* when the plugin has loaded and the runtime test passed, or to the failure
\* message when loading or the test failed. The editor and the Run button
\* are rendered only when loading is false, so every Run click finds
\* pyodide assigned; and every runCode forwards to the interpreter exactly
\* the text of the most recent change event, or the initial text if there
\* was none, however edits and runs interleave.
C19_App ==
    /\ loading = Str("Loading...")
    /\ [][loading' # loading =>
             /\ loading = Str("Loading...")
             /\ \/ loading' = JSFalse /\ loader = "resolved" /\ reaction' = "loaded"
                \/ /\ loading' = Str("Failed to load. Please try again later.")
                   /\ reaction' \in {"load failed", "test failed"}]_vars
    /\ [](/\ App_render.view = "editor" <=> loading = JSFalse
          /\ loading = JSFalse => pyodide = "window.pyodide"
          /\ loading = JSFalse <=> reaction = "loaded"
          /\ \A n \in DOMAIN log :
                log[n].ev = "run" =>
                    /\ log[n].interp = "window.pyodide"
                    /\ log[n].text = LastChange(n))

\* C19 witness: Run was clicked before any edit and forwarded the initial
\* text, then the user typed, and the next Run forwarded what was typed
C19_Witness ==
    /\ loading = JSFalse
    /\ Len(log) = 3
    /\ log[1].ev = "run" /\ log[1].text = "from js import graph\n" /\ log[1].raised
    /\ log[2].ev = "change" /\ log[2].text # "from js import graph\n"
    /\ log[3].ev = "run" /\ log[3].text = log[2].text
    /\ log[3].interp = "window.pyodide"

====
